---- MODULE Spec2Model ----
(***************************************************************************)
(* A model of poryscript's emitter (src/emitter/emitter.go): the chunk     *)
(* builder worklist of emitScriptStatement, the boolean expression         *)
(* linearizer, the chunk order optimizer, the two-pass renderer and the    *)
(* top-level Emit loop.                                                    *)
(*                                                                         *)
(* AST nodes are records.  Go keys the loop bindings by the identity of    *)
(* the loop statement node; here every node carries its identity as `uid`, *)
(* its path in the tree, and a break/continue names its loop by that uid   *)
(* (<<>> is the nil loop reference).                                       *)
(***************************************************************************)
EXTENDS Integers, Sequences, FiniteSets, TLC

\* ------------------------------------------------------------------ bounds

\* Size of a script body: statements + elif/else clauses + binary operators.
MaxSize == 3

\* Binary operators of an expression linearized on its own.
MaxOps == 3

\* Chunks one execution of a chunk graph runs through.
MaxTrace == 10

\* Top-level statements of a program given to Emit.
MaxTopLevel == 2

\* elif clauses of an if statement run on its own.
MaxElifs == 2

\* ---------------------------------------------------------------- the AST

LeafExpr(u) == [op |-> "leaf", uid |-> u]

BinExpr(o, l, r, u) == [op |-> o, uid |-> u, left |-> l, right |-> r]

\* An ast.Statement: the fields its kind has, and its identity.
CommandStatement(u, n) == [kind |-> "cmd", uid |-> u, name |-> n]

BreakStatement(u, l) == [kind |-> "break", uid |-> u, loop |-> l]

ContinueStatement(u, l) == [kind |-> "continue", uid |-> u, loop |-> l]

WhileStatement(u, c, b) == [kind |-> "while", uid |-> u, cond |-> c, body |-> b]

DoWhileStatement(u, c, b) == [kind |-> "dowhile", uid |-> u, cond |-> c, body |-> b]

IfStatement(u, c, b, e, h, s) ==
    [kind |-> "if", uid |-> u, cond |-> c, body |-> b, elifs |-> e, hasElse |-> h, els |-> s]

CommandNames == {"msgbox", "end", "return"}

BinaryOperators == {"and", "or"}

\* Expressions with exactly n binary operators, rooted at uid u.
RECURSIVE ExprsOfSize(_, _)
ExprsOfSize(n, u) ==
    IF n = 0 THEN {LeafExpr(u)}
    ELSE UNION { { BinExpr(o, l, r, u) :
                     o \in BinaryOperators,
                     l \in ExprsOfSize(k, u \o <<1>>),
                     r \in ExprsOfSize(n - 1 - k, u \o <<2>>) } : k \in 0 .. (n - 1) }

\* Statement lists of exactly size n whose statements get the uids
\* p \o <<i>>, p \o <<i+1>>, ...; lp is the uid of the innermost enclosing
\* loop, which the parser stores in every break and continue (<<>>: none).
RECURSIVE ListsOfSize(_, _, _, _)
RECURSIVE StmtsOfSize(_, _, _)
RECURSIVE ElifsOfSize(_, _, _, _)

ListsOfSize(n, p, i, lp) ==
    IF n = 0 THEN {<<>>}
    ELSE UNION { { <<s>> \o r : s \in StmtsOfSize(k, p \o <<i>>, lp),
                                r \in ListsOfSize(n - k, p, i + 1, lp) } : k \in 1 .. n }

\* Sequences of elif clauses of total size n (a clause costs 1 + its
\* condition's operators + its body), clause j of statement u getting the
\* branch number j.
ElifsOfSize(n, u, j, lp) ==
    IF n = 0 THEN {<<>>}
    ELSE UNION { UNION { { <<[cond |-> c, body |-> b]>> \o r :
                             c \in ExprsOfSize(cs, u \o <<j>>),
                             b \in ListsOfSize(k - 1 - cs, u \o <<j>>, 1, lp),
                             r \in ElifsOfSize(n - k, u, j + 1, lp) }
                         : cs \in 0 .. (k - 1) } : k \in 1 .. n }

StmtsOfSize(n, u, lp) ==
    LET simple == IF n = 1
                  THEN { CommandStatement(u, c) : c \in CommandNames }
                       \cup { BreakStatement(u, lp), ContinueStatement(u, lp) }
                  ELSE {}
        loops == UNION { { WhileStatement(u, c, b), DoWhileStatement(u, c, b) } :
                           <<c, b>> \in UNION { ExprsOfSize(cs, u \o <<1>>)
                                                 \X ListsOfSize(n - 1 - cs, u \o <<1>>, 1, u)
                                               : cs \in 0 .. (n - 1) } }
        \* an if without else: n - 1 = condition + body + elif clauses
        plain == UNION { { IfStatement(u, c, b, e, FALSE, <<>>) :
                             c \in ExprsOfSize(t[1], u \o <<1>>),
                             b \in ListsOfSize(t[2], u \o <<1>>, 1, lp),
                             e \in ElifsOfSize(t[3], u, 2, lp) }
                         : t \in { x \in (0 .. n) \X (0 .. n) \X (0 .. n) :
                                     x[1] + x[2] + x[3] = n - 1 } }
        \* with else: n - 2 = condition + body + elif clauses + else body
        withElse == UNION { { IfStatement(u, c, b, e, TRUE, s) :
                                c \in ExprsOfSize(t[1], u \o <<1>>),
                                b \in ListsOfSize(t[2], u \o <<1>>, 1, lp),
                                e \in ElifsOfSize(t[3], u, 2, lp),
                                s \in ListsOfSize(t[4], u \o <<0>>, 1, lp) }
                            : t \in { x \in (0 .. n) \X (0 .. n) \X (0 .. n) \X (0 .. n) :
                                        x[1] + x[2] + x[3] + x[4] = n - 2 } }
        ifs == plain \cup withElse
    IN simple \cup loops \cup ifs

\* The script bodies the model compiles.
Bodies == UNION { ListsOfSize(n, <<>>, 1, <<>>) : n \in 0 .. MaxSize }

\* ------------------------------------------------------- the chunk graph

\* branchBehavior: nil, *jump, *breakContext or *leafExpressionBranch.
NoBranch == [kind |-> "nil"]

Jump(d) == [kind |-> "jump", destChunkID |-> d]

BreakContext(d) == [kind |-> "breakContext", destChunkID |-> d]

createConditionDestination(destinationChunk, operatorExpression) ==
    [id |-> destinationChunk, operatorExpression |-> operatorExpression]

LeafExpressionBranch(t, f) ==
    [kind |-> "leafExpressionBranch", truthyDest |-> t, falseyReturnID |-> f]

Chunk(i, r, s, b) == [id |-> i, returnID |-> r, statements |-> s, branchBehavior |-> b]

\* m[k] = v, as a Go map assignment: the key is added or its value replaced.
MapPut(m, k, v) == [x \in DOMAIN m \cup {k} |-> IF x = k THEN v ELSE m[x]]

EmptyMap == [x \in {} |-> 0]

Min(S) == CHOOSE x \in S : \A y \in S : x <= y

\* splitChunkForBranch making no chunk of an empty rest: the id is taken and
\* returned, but when no statement follows the branching one nothing is
\* appended under it.
splitChunkForBranchNoEmpty(c, i, chunkCounter, remainingChunks) ==
    LET newID == chunkCounter + 1
        newChunk == Chunk(newID, c.returnID,
                          SubSeq(c.statements, i + 2, Len(c.statements)), NoBranch)
    IN [remainingChunks |-> IF newChunk.statements = <<>> THEN remainingChunks
                            ELSE Append(remainingChunks, newChunk),
        returnID |-> newID,
        chunkCounter |-> newID]

\* c.statements[i+1:] becomes a new pending chunk that keeps c's returnID;
\* its id is the continuation the branches return to.
splitChunkForBranch(c, i, chunkCounter, remainingChunks) ==
    LET newID == chunkCounter + 1
        newChunk == Chunk(newID, c.returnID,
                          SubSeq(c.statements, i + 2, Len(c.statements)), NoBranch)
    IN [remainingChunks |-> Append(remainingChunks, newChunk),
        returnID |-> newID,
        chunkCounter |-> newID]

\* What splitBooleanExpressionChunks returns, with the counter it advanced.
\* linkNil: the returned *chunk is nil; panic: a nil *chunk was dereferenced.
SplitResult(rem, cnt, link, linkNil, firstID, panic) ==
    [remainingChunks |-> rem, chunkCounter |-> cnt, link |-> link,
     linkNil |-> linkNil, firstID |-> firstID, panic |-> panic]

\* LeftOperandDests with the two operators confused: AND wired as OR is, and
\* OR as AND is.
LeftOperandDestsSwapped(operator, linkID, successChunkID, failureChunkID) ==
    IF operator = "and"
    THEN [success |-> successChunkID, failure |-> linkID]
    ELSE [success |-> linkID, failure |-> failureChunkID]

\* The success and failure destinations the left operand is linearized with
\* (lines 284 and 297): for AND its success is the link chunk that jumps on to
\* the right operand, for OR its failure is.
LeftOperandDests(operator, linkID, successChunkID, failureChunkID) ==
    IF operator = "and"
    THEN [success |-> linkID, failure |-> failureChunkID]
    ELSE [success |-> successChunkID, failure |-> linkID]

RECURSIVE splitBooleanExpressionChunks(_, _, _, _, _, _)
splitBooleanExpressionChunks(expression, chunkCounter, successChunkID, failureChunkID, remainingChunks, firstID) ==
    IF expression.op = "leaf" THEN
        LET dest == createConditionDestination(successChunkID, expression.uid)
            newChunk == Chunk(chunkCounter + 1, 0, <<>>,
                              LeafExpressionBranch(dest, failureChunkID))
        IN SplitResult(Append(remainingChunks, newChunk), chunkCounter + 1,
                       newChunk.id, FALSE,
                       IF firstID = -1 THEN newChunk.id ELSE firstID, FALSE)
    ELSE IF expression.op \in {"and", "or"} THEN
        \* successChunk of lines 277-288, failChunk of lines 290-301
        LET linkID == chunkCounter + 1
            d == LeftOperandDests(expression.op, linkID, successChunkID, failureChunkID)
            l == splitBooleanExpressionChunks(expression.left, linkID, d.success,
                                              d.failure, remainingChunks, firstID)
            r == splitBooleanExpressionChunks(expression.right, l.chunkCounter,
                                              successChunkID, failureChunkID,
                                              l.remainingChunks, l.firstID)
            linkChunk == Chunk(linkID, 0, <<>>, Jump(r.link))
        IN IF l.panic \/ r.panic \/ r.linkNil
           THEN SplitResult(remainingChunks, chunkCounter, -1, TRUE, firstID, TRUE)
           ELSE SplitResult(Append(r.remainingChunks, linkChunk), r.chunkCounter,
                            l.link, l.linkNil, r.firstID, FALSE)
    ELSE SplitResult(remainingChunks, chunkCounter, -1, TRUE, firstID, FALSE)

\* StitchElifs with every elif failing to the destination of the last one:
\* a false elif condition skips the elif clauses after it.
RECURSIVE StitchElifsToLast(_, _, _, _, _)
StitchElifsToLast(stmt, firstElifID, lastFail, k, st) ==
    IF k = 0 \/ st.panic THEN st
    ELSE LET r == splitBooleanExpressionChunks(stmt.elifs[k].cond, st.chunkCounter,
                                               firstElifID + (k - 1), lastFail,
                                               st.remainingChunks, -1)
         IN StitchElifsToLast(stmt, firstElifID, lastFail, k - 1,
                              [remainingChunks |-> r.remainingChunks,
                               chunkCounter |-> r.chunkCounter,
                               prevElifEntryID |-> r.firstID,
                               panic |-> r.panic])

\* The reverse loop over the elif clauses (lines 232-245): clause k's failure
\* destination is the entry of clause k+1, already linearized, or lastFail
\* for the last clause.  st carries remainingChunks, chunkCounter, the entry
\* id of the clause linearized last (prevElifEntryID) and panic.
RECURSIVE StitchElifs(_, _, _, _, _)
StitchElifs(stmt, firstElifID, lastFail, k, st) ==
    IF k = 0 \/ st.panic THEN st
    ELSE LET fail == IF k = Len(stmt.elifs) THEN lastFail ELSE st.prevElifEntryID
             r == splitBooleanExpressionChunks(stmt.elifs[k].cond, st.chunkCounter,
                                               firstElifID + (k - 1), fail,
                                               st.remainingChunks, -1)
         IN StitchElifs(stmt, firstElifID, lastFail, k - 1,
                        [remainingChunks |-> r.remainingChunks,
                         chunkCounter |-> r.chunkCounter,
                         prevElifEntryID |-> r.firstID,
                         panic |-> r.panic])

\* ElifChunks without the increment of line 215: every elif body chunk gets
\* the id of the first.
ElifChunksOneID(stmt, firstElifID, returnID) ==
    [k \in 1 .. Len(stmt.elifs) |->
        Chunk(firstElifID, returnID, stmt.elifs[k].body, NoBranch)]

\* The chunks of elif bodies 1..k, with consecutive ids from firstElifID.
ElifChunks(stmt, firstElifID, returnID) ==
    [k \in 1 .. Len(stmt.elifs) |->
        Chunk(firstElifID + (k - 1), returnID, stmt.elifs[k].body, NoBranch)]

createIfStatementChunks(stmt, i, curChunk, remainingChunks, chunkCounter) ==
    LET sp == splitChunkForBranch(curChunk, i, chunkCounter, remainingChunks)
        returnID == sp.returnID
        consequenceChunk == Chunk(sp.chunkCounter + 1, returnID, stmt.body, NoBranch)
        nElif == Len(stmt.elifs)
        firstElifID == consequenceChunk.id + 1
        elseID == consequenceChunk.id + nElif + 1
        rem1 == Append(sp.remainingChunks, consequenceChunk)
                   \o ElifChunks(stmt, firstElifID, returnID)
        rem2 == IF stmt.hasElse
                THEN Append(rem1, Chunk(elseID, returnID, stmt.els, NoBranch))
                ELSE rem1
        cnt2 == IF stmt.hasElse THEN elseID ELSE consequenceChunk.id + nElif
        st == StitchElifs(stmt, firstElifID,
                          IF stmt.hasElse THEN elseID ELSE returnID, nElif,
                          [remainingChunks |-> rem2, chunkCounter |-> cnt2,
                           prevElifEntryID |-> -1, panic |-> FALSE])
        fail == IF nElif > 0 THEN st.prevElifEntryID
                ELSE IF stmt.hasElse THEN elseID ELSE returnID
        r == splitBooleanExpressionChunks(stmt.cond, st.chunkCounter, consequenceChunk.id,
                                          fail, st.remainingChunks, -1)
    IN [remainingChunks |-> r.remainingChunks,
        jump |-> Jump(r.firstID),
        chunkCounter |-> r.chunkCounter,
        panic |-> st.panic \/ r.panic]

\* LoopChunks without line 330/356: the header chunk is built and referred
\* to, but never appended to the pending list.
LoopChunksHeaderDropped(stmt, i, curChunk, remainingChunks, chunkCounter) ==
    LET sp == splitChunkForBranch(curChunk, i, chunkCounter, remainingChunks)
        returnID == sp.returnID
        headerID == sp.chunkCounter + 1
        consequenceChunk == Chunk(headerID + 1, headerID, stmt.body, NoBranch)
        r == splitBooleanExpressionChunks(stmt.cond, consequenceChunk.id,
                                          consequenceChunk.id, returnID,
                                          sp.remainingChunks, -1)
    IN [remainingChunks |-> Append(r.remainingChunks, consequenceChunk),
        headerID |-> headerID,
        consequenceID |-> consequenceChunk.id,
        returnID |-> returnID,
        chunkCounter |-> r.chunkCounter,
        panic |-> r.panic]

\* The part createWhileStatementChunks and createDoWhileStatementChunks share
\* (lines 310-330 and 336-356 are the same text).
LoopChunks(stmt, i, curChunk, remainingChunks, chunkCounter) ==
    LET sp == splitChunkForBranch(curChunk, i, chunkCounter, remainingChunks)
        returnID == sp.returnID
        headerID == sp.chunkCounter + 1
        consequenceChunk == Chunk(headerID + 1, headerID, stmt.body, NoBranch)
        r == splitBooleanExpressionChunks(stmt.cond, consequenceChunk.id,
                                          consequenceChunk.id, returnID,
                                          sp.remainingChunks, -1)
        headerChunk == Chunk(headerID, returnID, <<>>, Jump(r.firstID))
    IN [remainingChunks |-> Append(Append(r.remainingChunks, consequenceChunk), headerChunk),
        headerID |-> headerID,
        consequenceID |-> consequenceChunk.id,
        returnID |-> returnID,
        chunkCounter |-> r.chunkCounter,
        panic |-> r.panic]

createWhileStatementChunks(stmt, i, curChunk, remainingChunks, chunkCounter) ==
    LET l == LoopChunks(stmt, i, curChunk, remainingChunks, chunkCounter)
    IN [remainingChunks |-> l.remainingChunks, jump |-> Jump(l.headerID),
        returnID |-> l.returnID, chunkCounter |-> l.chunkCounter, panic |-> l.panic]

createDoWhileStatementChunks(stmt, i, curChunk, remainingChunks, chunkCounter) ==
    LET l == LoopChunks(stmt, i, curChunk, remainingChunks, chunkCounter)
    IN [remainingChunks |-> l.remainingChunks, jump |-> Jump(l.consequenceID),
        returnID |-> l.returnID, chunkCounter |-> l.chunkCounter, panic |-> l.panic]

\* "end" and "return" end the current logic scope (line 100).
IsTerminalCommand(stmt) == stmt.kind = "cmd" /\ stmt.name \in {"end", "return"}

\* The front scan of lines 90-107: the value of i when the scan stops, at the
\* first statement that is no command or is a terminal command.
SkipCommands(statements) ==
    LET stops == { k \in 1 .. Len(statements) :
                     statements[k].kind # "cmd" \/ IsTerminalCommand(statements[k]) }
    IN IF stops = {} THEN Len(statements) ELSE Min(stops) - 1

\* ---------------------------------------------------- emitScriptStatement

\* The locals of emitScriptStatement (lines 72-78) for a body; panicked says
\* that a panic ended it.
BuilderInit(statements) ==
    [chunkCounter |-> 0,
     finalChunks |-> EmptyMap,
     remainingChunks |-> <<Chunk(0, -1, statements, NoBranch)>>,
     loopStatementReturnChunks |-> EmptyMap,
     loopStatementOriginChunks |-> EmptyMap,
     panicked |-> FALSE]

\* curChunk, popped at lines 86-87, and the statement the front scan stops at.
CurChunk(b) == Head(b.remainingChunks)

CurIndex(b) == SkipCommands(CurChunk(b).statements)

CurStmt(b) == CurChunk(b).statements[CurIndex(b) + 1]

\* The kind of curChunk.statements[i]; "" when i = len(curChunk.statements).
CurKind(b) ==
    IF CurIndex(b) < Len(CurChunk(b).statements) THEN CurStmt(b).kind ELSE ""

\* CompleteChunk cut one statement late: curChunk.statements[:i+1].
CompleteChunkCutLate(b, branchBehavior) ==
    Chunk(CurChunk(b).id, CurChunk(b).returnID,
          SubSeq(CurChunk(b).statements, 1, CurIndex(b) + 1), branchBehavior)

\* completeChunk of lines 122-127 and the like: curChunk.statements[:i].
CompleteChunk(b, branchBehavior) ==
    Chunk(CurChunk(b).id, CurChunk(b).returnID,
          SubSeq(CurChunk(b).statements, 1, CurIndex(b)), branchBehavior)

Panicked(b) == [b EXCEPT !.panicked = TRUE, !.remainingChunks = Tail(@)]

\* FinalizeTerminal with completeChunk keeping curChunk's returnID.
FinalizeTerminalKeepReturn(b) ==
    [b EXCEPT !.finalChunks = MapPut(@, CurChunk(b).id, CompleteChunk(b, NoBranch)),
              !.remainingChunks = Tail(@)]

\* Lines 100-105 and 108-110.
FinalizeTerminal(b) ==
    [b EXCEPT !.finalChunks = MapPut(@, CurChunk(b).id,
                  Chunk(CurChunk(b).id, -1,
                        SubSeq(CurChunk(b).statements, 1, CurIndex(b)), NoBranch)),
              !.remainingChunks = Tail(@)]

\* FinalizeWhole without the pop having taken curChunk off the list: the
\* chunk is finalized and is pending again, behind the others.
FinalizeWholeRequeue(b) ==
    [b EXCEPT !.finalChunks = MapPut(@, CurChunk(b).id, CurChunk(b)),
              !.remainingChunks = Append(Tail(@), CurChunk(b))]

\* Lines 112-116.
FinalizeWhole(b) ==
    [b EXCEPT !.finalChunks = MapPut(@, CurChunk(b).id, CurChunk(b)),
              !.remainingChunks = Tail(@)]

\* Lines 119-128.
SplitIf(b) ==
    LET r == createIfStatementChunks(CurStmt(b), CurIndex(b), CurChunk(b),
                                     Tail(b.remainingChunks), b.chunkCounter)
    IN IF r.panic THEN Panicked(b)
       ELSE [b EXCEPT !.remainingChunks = r.remainingChunks,
                      !.chunkCounter = r.chunkCounter,
                      !.finalChunks = MapPut(@, CurChunk(b).id, CompleteChunk(b, r.jump))]

\* RecordLoop without line 140/152: the header binding is not recorded.
RecordLoopExitOnly(b, r) ==
    IF r.panic THEN Panicked(b)
    ELSE [b EXCEPT !.remainingChunks = r.remainingChunks,
                   !.chunkCounter = r.chunkCounter,
                   !.finalChunks = MapPut(@, CurChunk(b).id, CompleteChunk(b, r.jump)),
                   !.loopStatementReturnChunks = MapPut(@, CurStmt(b).uid, r.returnID)]

\* Lines 132-140 and 144-152, r being what the create function returned.
RecordLoop(b, r) ==
    IF r.panic THEN Panicked(b)
    ELSE [b EXCEPT !.remainingChunks = r.remainingChunks,
                   !.chunkCounter = r.chunkCounter,
                   !.finalChunks = MapPut(@, CurChunk(b).id, CompleteChunk(b, r.jump)),
                   !.loopStatementReturnChunks = MapPut(@, CurStmt(b).uid, r.returnID),
                   !.loopStatementOriginChunks =
                        MapPut(@, CurStmt(b).uid, r.jump.destChunkID)]

\* Lines 129-140.
SplitWhile(b) ==
    RecordLoop(b, createWhileStatementChunks(CurStmt(b), CurIndex(b), CurChunk(b),
                                             Tail(b.remainingChunks), b.chunkCounter))

\* Lines 141-152.
SplitDoWhile(b) ==
    RecordLoop(b, createDoWhileStatementChunks(CurStmt(b), CurIndex(b), CurChunk(b),
                                               Tail(b.remainingChunks), b.chunkCounter))

\* ResolveBreak reading the other map: the break sent where a continue goes.
ResolveBreakToOrigin(b) ==
    IF CurStmt(b).loop \notin DOMAIN b.loopStatementOriginChunks THEN Panicked(b)
    ELSE [b EXCEPT !.finalChunks = MapPut(@, CurChunk(b).id,
                       CompleteChunk(b, BreakContext(
                           b.loopStatementOriginChunks[CurStmt(b).loop]))),
                   !.remainingChunks = Tail(@)]

\* Lines 153-164.
ResolveBreak(b) ==
    IF CurStmt(b).loop \notin DOMAIN b.loopStatementReturnChunks THEN Panicked(b)
    ELSE [b EXCEPT !.finalChunks = MapPut(@, CurChunk(b).id,
                       CompleteChunk(b, BreakContext(
                           b.loopStatementReturnChunks[CurStmt(b).loop]))),
                   !.remainingChunks = Tail(@)]

\* Lines 165-176.
ResolveContinue(b) ==
    IF CurStmt(b).loop \notin DOMAIN b.loopStatementOriginChunks THEN Panicked(b)
    ELSE [b EXCEPT !.finalChunks = MapPut(@, CurChunk(b).id,
                       CompleteChunk(b, BreakContext(
                           b.loopStatementOriginChunks[CurStmt(b).loop]))),
                   !.remainingChunks = Tail(@)]

\* Lines 177-184: a statement of no kind the builder knows.
FinalizeUnknown(b) ==
    [b EXCEPT !.finalChunks = MapPut(@, CurChunk(b).id, CompleteChunk(b, NoBranch)),
              !.remainingChunks = Tail(@)]

\* One iteration of the worklist loop, lines 79-185.
ProcessChunk(b) ==
    LET k == CurKind(b)
    IN IF k = "cmd" THEN FinalizeTerminal(b)
       ELSE IF k = "" THEN FinalizeWhole(b)
       ELSE IF k = "if" THEN SplitIf(b)
       ELSE IF k = "while" THEN SplitWhile(b)
       ELSE IF k = "dowhile" THEN SplitDoWhile(b)
       ELSE IF k = "break" THEN ResolveBreak(b)
       ELSE IF k = "continue" THEN ResolveContinue(b)
       ELSE FinalizeUnknown(b)

\* The worklist loop run to its end (or to a panic).
RECURSIVE RunBuilder(_)
RunBuilder(b) ==
    IF b.panicked \/ b.remainingChunks = <<>> THEN b ELSE RunBuilder(ProcessChunk(b))

\* ------------------------------------------------------ optimizeChunkOrder

\* The id the optimizer and the fallthrough decisions take as a branch
\* behavior's continuation: a jump's or break's destination, a conditional
\* leaf's truthy destination.
getTailChunkID(branchBehavior) ==
    IF branchBehavior.kind = "leafExpressionBranch"
    THEN branchBehavior.truthyDest.id
    ELSE branchBehavior.destChunkID

\* NaturalNext without lines 433-434: the returnID, whatever the branch
\* behavior.
NaturalNextReturnOnly(curChunk) == curChunk.returnID

\* nextChunkID of lines 432-437.
NaturalNext(curChunk) ==
    IF curChunk.branchBehavior.kind # "nil"
    THEN getTailChunkID(curChunk.branchBehavior)
    ELSE curChunk.returnID

\* Lines 417-429, for a mapping that is not empty.
OptimizerInit(chunks) ==
    [chunkIDs |-> <<0>>, unvisited |-> DOMAIN chunks \ {0}, i |-> 1]

Last(seq) == seq[Len(seq)]

\* Lines 439-445 apply: the natural next chunk is still unvisited.
FollowsNext(chunks, o) ==
    LET nextChunkID == NaturalNext(chunks[Last(o.chunkIDs)])
    IN nextChunkID # -1 /\ nextChunkID \in o.unvisited

\* Lines 441-443.
FollowNext(chunks, o) ==
    LET nextChunkID == NaturalNext(chunks[Last(o.chunkIDs)])
    IN [o EXCEPT !.chunkIDs = Append(@, nextChunkID),
                 !.unvisited = @ \ {nextChunkID}]

\* ScanUnvisited with i advanced before it is tested: the id i itself is
\* never looked at.
ScanUnvisitedSkipping(chunks, o) ==
    LET n == Cardinality(DOMAIN chunks)
        found == { j \in (o.i + 1) .. (n - 1) : j \in o.unvisited }
    IN IF found = {}
       THEN [o EXCEPT !.i = IF o.i < n THEN n ELSE o.i]
       ELSE [o EXCEPT !.chunkIDs = Append(@, Min(found)),
                      !.unvisited = @ \ {Min(found)},
                      !.i = Min(found)]

\* Lines 448-456: i advances to the first unvisited id below len(chunks),
\* which is appended; when there is none, i ends at len(chunks) and nothing
\* is appended.
ScanUnvisited(chunks, o) ==
    LET n == Cardinality(DOMAIN chunks)
        found == { j \in o.i .. (n - 1) : j \in o.unvisited }
    IN IF found = {}
       THEN [o EXCEPT !.i = IF o.i < n THEN n ELSE o.i]
       ELSE [o EXCEPT !.chunkIDs = Append(@, Min(found)),
                      !.unvisited = @ \ {Min(found)},
                      !.i = Min(found)]

\* One iteration of the loop of line 430.
OptimizerStep(chunks, o) ==
    IF FollowsNext(chunks, o) THEN FollowNext(chunks, o) ELSE ScanUnvisited(chunks, o)

\* The loop of lines 430-457 run to its end.  An iteration that changes
\* nothing would repeat forever: the run stops there with what it has.
RECURSIVE OptimizerRun(_, _)
OptimizerRun(chunks, o) ==
    IF Len(o.chunkIDs) >= Cardinality(DOMAIN chunks) THEN o.chunkIDs
    ELSE LET o2 == OptimizerStep(chunks, o)
         IN IF o2 = o THEN o.chunkIDs ELSE OptimizerRun(chunks, o2)

optimizeChunkOrder(chunks) ==
    IF DOMAIN chunks = {} THEN <<>> ELSE OptimizerRun(chunks, OptimizerInit(chunks))

\* sort.Ints over the keys: lines 367-371.
RECURSIVE SortedIDs(_)
SortedIDs(ids) ==
    IF ids = {} THEN <<>> ELSE <<Min(ids)>> \o SortedIDs(ids \ {Min(ids)})

\* Lines 363-372.
ChunkOrder(chunks, opt) ==
    IF opt THEN optimizeChunkOrder(chunks) ELSE SortedIDs(DOMAIN chunks)

\* ------------------------------------------------------------ renderChunks

\* The instructions of the rendered text.
CommandLine(stmt) == [op |-> "command", stmt |-> stmt.uid, name |-> stmt.name]

Goto(dest) == [op |-> "goto", dest |-> dest]

GotoIf(operatorExpression, dest) ==
    [op |-> "goto_if", cond |-> operatorExpression, dest |-> dest]

Terminate == [op |-> "terminate"]

BlankLine == [op |-> "blank"]

\* The chunk's statements, verbatim.
renderStatements(chunk) ==
    [k \in 1 .. Len(chunk.statements) |-> CommandLine(chunk.statements[k])]

\* What renderBranching writes after the statements, the ids it registers as
\* jump targets, and whether control falls through to the next chunk.
Branching(lines, registered, isFallThrough) ==
    [lines |-> lines, registered |-> registered, isFallThrough |-> isFallThrough]

\* The transfer to dest at the end of a chunk: elided when dest is the next
\* chunk, the terminal instruction when dest is -1 (the script ends), an
\* unconditional jump otherwise.
TailJump(dest, nextChunkID) ==
    IF dest = -1 THEN Branching(<<Terminate>>, {}, FALSE)
    ELSE IF dest = nextChunkID THEN Branching(<<>>, {}, TRUE)
    ELSE Branching(<<Goto(dest)>>, {dest}, FALSE)

renderBranching(chunk, nextChunkID) ==
    LET bb == chunk.branchBehavior
    IN IF bb.kind = "nil" THEN TailJump(chunk.returnID, nextChunkID)
       ELSE IF bb.kind = "leafExpressionBranch" THEN
           LET t == TailJump(bb.falseyReturnID, nextChunkID)
           IN Branching(<<GotoIf(bb.truthyDest.operatorExpression, bb.truthyDest.id)>>
                            \o t.lines,
                        {bb.truthyDest.id} \cup t.registered,
                        t.isFallThrough)
       ELSE TailJump(bb.destChunkID, nextChunkID)

\* NextInOrder one position off: chunkIDs[i+2].
NextInOrderSkipping(ids, k) == IF k + 1 < Len(ids) THEN ids[k + 2] ELSE -1

\* nextChunkID of lines 386-390, for position k of the order.
NextInOrder(ids, k) == IF k < Len(ids) THEN ids[k + 1] ELSE -1

\* One iteration of the loop of lines 383-397: the body of the chunk at
\* position k and the jump targets it registered.
RenderBody(chunks, ids, k) ==
    LET chunk == chunks[ids[k]]
        br == renderBranching(chunk, NextInOrder(ids, k))
    IN [lines |-> renderStatements(chunk) \o br.lines
                     \o (IF br.isFallThrough THEN <<>> ELSE <<BlankLine>>),
        registered |-> br.registered]

\* The first pass, lines 377-397.
RenderBodies(chunks, ids) ==
    [chunkBodies |-> [id \in { ids[k] : k \in 1 .. Len(ids) } |->
                        RenderBody(chunks, ids,
                                   CHOOSE k \in 1 .. Len(ids) :
                                       /\ ids[k] = id
                                       /\ \A j \in (k + 1) .. Len(ids) : ids[j] # id).lines],
     jumpChunks |-> UNION { RenderBody(chunks, ids, k).registered : k \in 1 .. Len(ids) }]

\* RenderLabels without the rule for chunk 0: a label only where a jump goes.
RenderLabelsTargetsOnly(ids, bodies, jumps) ==
    [k \in 1 .. Len(ids) |->
        [id |-> ids[k],
         label |-> (ids[k] \in jumps),
         body |-> bodies[ids[k]]]]

\* The second pass, lines 402-409: per chunk of the order, whether its label
\* is written, and its body.
RenderLabels(ids, bodies, jumps) ==
    [k \in 1 .. Len(ids) |->
        [id |-> ids[k],
         label |-> (ids[k] = 0 \/ ids[k] \in jumps),
         body |-> bodies[ids[k]]]]

renderChunks(chunks, opt) ==
    LET ids == ChunkOrder(chunks, opt)
        first == RenderBodies(chunks, ids)
    IN RenderLabels(ids, first.chunkBodies, first.jumpChunks)

\* ------------------------------------------------- running a chunk graph

\* Where control goes from a chunk once its statements have run: a leaf goes
\* by the outcome of its comparison, a jump or break to its destination, a
\* chunk with no branch behavior to its returnID.
GraphSucc(chunk, outcome) ==
    LET bb == chunk.branchBehavior
    IN IF bb.kind = "nil" THEN chunk.returnID
       ELSE IF bb.kind = "leafExpressionBranch"
            THEN (IF outcome THEN bb.truthyDest.id ELSE bb.falseyReturnID)
       ELSE bb.destChunkID

\* -------------------------------------------------------------------- Emit

\* What emitScriptStatement comes to once the worklist loop has ended in
\* builder state b: a panic, or the text renderChunks returns (line 187).
ScriptText(b, name, opt) ==
    IF b.panicked THEN [panicked |-> TRUE, text |-> <<>>]
    ELSE [panicked |-> FALSE,
          text |-> <<[block |-> "script", name |-> name,
                      chunks |-> renderChunks(b.finalChunks, opt)]>>]

\* emitScriptStatement as Emit calls it: the script's text, or a panic.
emitScriptStatement(scriptStmt, opt) ==
    ScriptText(RunBuilder(BuilderInit(scriptStmt.body)), scriptStmt.name, opt)

\* Lines 461-469.
emitText(t) == <<[block |-> "text", name |-> t.name, lines |-> t.value]>>

\* Lines 471-475.
emitRawStatement(rawStmt) == <<[block |-> "raw", value |-> rawStmt.value]>>

\* sb.WriteString("\n") of lines 33-35 and 56-58.
Separator(n) == IF n > 0 THEN <<[block |-> "newline"]>> ELSE <<>>

ScriptStatement(n, b) == [kind |-> "script", name |-> n, body |-> b]

RawStatement(v) == [kind |-> "raw", value |-> v]

\* A top-level statement that is neither *ast.ScriptStatement nor
\* *ast.RawStatement.
UnknownStatement == [kind |-> "unknown"]

TopLevelStatements ==
    { ScriptStatement("Script", b) : b \in UNION { ListsOfSize(n, <<>>, 1, <<>>) : n \in 0 .. 1 } }
    \cup { RawStatement("raw"), UnknownStatement }

RECURSIVE SeqsUpTo(_, _)
SeqsUpTo(S, n) ==
    IF n = 0 THEN {<<>>}
    ELSE {<<>>} \cup { <<x>> \o r : x \in S, r \in SeqsUpTo(S, n - 1) }

Programs ==
    [TopLevelStatements : SeqsUpTo(TopLevelStatements, MaxTopLevel),
     Texts : {<<>>, <<[name |-> "Text", value |-> <<"line">>]>>}]

VARIABLES
    pc,                         \* where the modelled function is
    body,                       \* scriptStmt.Body.Statements
    optimize,                   \* e.optimize
    chunkCounter,
    finalChunks,                \* map[int]*chunk
    remainingChunks,            \* []*chunk
    loopStatementReturnChunks,  \* map[ast.Statement]int, keyed by the loop's uid
    loopStatementOriginChunks,
    chunkIDs,                   \* renderChunks: the order
    unvisited,                  \* optimizeChunkOrder
    scanIndex,                  \* optimizeChunkOrder's i
    chunkBodies,                \* renderChunks: map[int]*strings.Builder
    jumpChunks,                 \* renderChunks: the ids registered as jump targets
    text,                       \* the rendered script, one segment per chunk
    expression,                 \* the expression given to the linearizer
    successChunkID,
    failureChunkID,
    execAt,                     \* the chunk control is at (running a graph)
    trace,                      \* the chunks run so far, each with its outcome
    program,                    \* e.program
    stmtIndex,                  \* Emit: the statements the range loop has taken
    emitCount,                  \* Emit's i
    sb,                         \* Emit's strings.Builder
    result                      \* what Emit's caller received: Emit returns a string

builderVars == <<chunkCounter, finalChunks, remainingChunks,
                 loopStatementReturnChunks, loopStatementOriginChunks>>

renderVars == <<chunkIDs, unvisited, scanIndex, chunkBodies, jumpChunks, text>>

boolVars == <<expression, successChunkID, failureChunkID>>

execVars == <<execAt, trace>>

emitVars == <<program, stmtIndex, emitCount, sb, result>>

vars == <<pc, body, optimize, builderVars, renderVars, boolVars, execVars, emitVars>>

\* The builder's locals as one record, and their update.
Builder ==
    [chunkCounter |-> chunkCounter,
     finalChunks |-> finalChunks,
     remainingChunks |-> remainingChunks,
     loopStatementReturnChunks |-> loopStatementReturnChunks,
     loopStatementOriginChunks |-> loopStatementOriginChunks,
     panicked |-> pc = "panic"]

SetBuilder(b) ==
    /\ chunkCounter' = b.chunkCounter
    /\ finalChunks' = b.finalChunks
    /\ remainingChunks' = b.remainingChunks
    /\ loopStatementReturnChunks' = b.loopStatementReturnChunks
    /\ loopStatementOriginChunks' = b.loopStatementOriginChunks
    /\ pc' = IF b.panicked THEN "panic" ELSE pc

BuilderIs(b) ==
    /\ chunkCounter = b.chunkCounter
    /\ finalChunks = b.finalChunks
    /\ remainingChunks = b.remainingChunks
    /\ loopStatementReturnChunks = b.loopStatementReturnChunks
    /\ loopStatementOriginChunks = b.loopStatementOriginChunks

\* The variables of the parts a specification leaves out.
RenderIdle ==
    /\ chunkIDs = <<>>
    /\ unvisited = {}
    /\ scanIndex = 0
    /\ chunkBodies = EmptyMap
    /\ jumpChunks = {}
    /\ text = <<>>

BoolIdle ==
    /\ expression = LeafExpr(<<>>)
    /\ successChunkID = -1
    /\ failureChunkID = -1

ExecIdle ==
    /\ execAt = -1
    /\ trace = <<>>

EmitIdle ==
    /\ program = [TopLevelStatements |-> <<>>, Texts |-> <<>>]
    /\ stmtIndex = 0
    /\ emitCount = 0
    /\ sb = <<>>
    /\ result = [kind |-> "none", value |-> <<>>]

\* ------------------------------------------- emitScriptStatement, stepwise

\* emitScriptStatement entered with a script body: lines 72-78.  The worklist
\* loop does not read e.optimize.
Init ==
    /\ pc = "build"
    /\ body \in Bodies
    /\ optimize = FALSE
    /\ BuilderIs(BuilderInit(body))
    /\ RenderIdle
    /\ BoolIdle
    /\ ExecIdle
    /\ EmitIdle

\* An iteration of the worklist loop whose front scan stops at a statement
\* of the kind given ("": at the end of the chunk).
Popping(kind) ==
    /\ pc = "build"
    /\ remainingChunks # <<>>
    /\ CurKind(Builder) = kind

BuildFrame == UNCHANGED <<body, optimize, renderVars, boolVars, execVars, emitVars>>

DoFinalizeTerminal ==
    /\ Popping("cmd")
    /\ SetBuilder(FinalizeTerminal(Builder))
    /\ BuildFrame

DoFinalizeWhole ==
    /\ Popping("")
    /\ SetBuilder(FinalizeWhole(Builder))
    /\ BuildFrame

DoSplitIf ==
    /\ Popping("if")
    /\ SetBuilder(SplitIf(Builder))
    /\ BuildFrame

DoSplitWhile ==
    /\ Popping("while")
    /\ SetBuilder(SplitWhile(Builder))
    /\ BuildFrame

DoSplitDoWhile ==
    /\ Popping("dowhile")
    /\ SetBuilder(SplitDoWhile(Builder))
    /\ BuildFrame

DoBreak ==
    /\ Popping("break")
    /\ SetBuilder(ResolveBreak(Builder))
    /\ BuildFrame

DoContinue ==
    /\ Popping("continue")
    /\ SetBuilder(ResolveContinue(Builder))
    /\ BuildFrame

\* Line 187: the worklist is empty and renderChunks is called.
CallRender ==
    /\ pc = "build"
    /\ remainingChunks = <<>>
    /\ pc' = "render"
    /\ UNCHANGED <<builderVars>>
    /\ BuildFrame

\* The statement kinds of the input contract are command, if, while, do-while,
\* break and continue: FinalizeUnknown has no statement to take it.
Next ==
    \/ DoFinalizeTerminal
    \/ DoFinalizeWhole
    \/ DoSplitIf
    \/ DoSplitWhile
    \/ DoSplitDoWhile
    \/ DoBreak
    \/ DoContinue
    \/ CallRender

Spec == Init /\ [][Next]_vars

\* --------------------------------------------------- renderChunks, stepwise

\* The script bodies whose compilation reaches renderChunks.
RenderedBodies == { b \in Bodies : ~RunBuilder(BuilderInit(b)).panicked }

\* renderChunks entered (line 361) with a mapping the builder finished and
\* either setting of e.optimize.
RenderInit ==
    /\ pc = "render"
    /\ body \in RenderedBodies
    /\ optimize \in BOOLEAN
    /\ BuilderIs(RunBuilder(BuilderInit(body)))
    /\ RenderIdle
    /\ BoolIdle
    /\ ExecIdle
    /\ EmitIdle

Optimizer == [chunkIDs |-> chunkIDs, unvisited |-> unvisited, i |-> scanIndex]

SetOptimizer(o) ==
    /\ chunkIDs' = o.chunkIDs
    /\ unvisited' = o.unvisited
    /\ scanIndex' = o.i

RenderFrame == UNCHANGED <<body, optimize, builderVars, boolVars, execVars, emitVars>>

\* Lines 366-371.
SortChunkIDs ==
    /\ pc = "render"
    /\ ~optimize
    /\ chunkIDs' = SortedIDs(DOMAIN finalChunks)
    /\ pc' = "bodies"
    /\ UNCHANGED <<unvisited, scanIndex, chunkBodies, jumpChunks, text>>
    /\ RenderFrame

\* Lines 364-365 and 417-429.
StartOptimize ==
    /\ pc = "render"
    /\ optimize
    /\ SetOptimizer(OptimizerInit(finalChunks))
    /\ pc' = "optimize"
    /\ UNCHANGED <<chunkBodies, jumpChunks, text>>
    /\ RenderFrame

Optimizing ==
    /\ pc = "optimize"
    /\ Len(chunkIDs) < Cardinality(DOMAIN finalChunks)

\* Lines 431-445.
OptFollow ==
    /\ Optimizing
    /\ FollowsNext(finalChunks, Optimizer)
    /\ SetOptimizer(FollowNext(finalChunks, Optimizer))
    /\ UNCHANGED <<pc, chunkBodies, jumpChunks, text>>
    /\ RenderFrame

\* Lines 447-456.
OptFallback ==
    /\ Optimizing
    /\ ~FollowsNext(finalChunks, Optimizer)
    /\ SetOptimizer(ScanUnvisited(finalChunks, Optimizer))
    /\ UNCHANGED <<pc, chunkBodies, jumpChunks, text>>
    /\ RenderFrame

\* Line 458.
OptReturn ==
    /\ pc = "optimize"
    /\ Len(chunkIDs) >= Cardinality(DOMAIN finalChunks)
    /\ pc' = "bodies"
    /\ UNCHANGED renderVars
    /\ RenderFrame

\* Lines 377-397.
DoRenderBodies ==
    /\ pc = "bodies"
    /\ LET first == RenderBodies(finalChunks, chunkIDs)
       IN /\ chunkBodies' = first.chunkBodies
          /\ jumpChunks' = first.jumpChunks
    /\ pc' = "labels"
    /\ UNCHANGED <<chunkIDs, unvisited, scanIndex, text>>
    /\ RenderFrame

\* Lines 402-411.
DoRenderLabels ==
    /\ pc = "labels"
    /\ text' = RenderLabels(chunkIDs, chunkBodies, jumpChunks)
    /\ pc' = "done"
    /\ UNCHANGED <<chunkIDs, unvisited, scanIndex, chunkBodies, jumpChunks>>
    /\ RenderFrame

RenderNext ==
    \/ SortChunkIDs
    \/ StartOptimize
    \/ OptFollow
    \/ OptFallback
    \/ OptReturn
    \/ DoRenderBodies
    \/ DoRenderLabels

RenderSpec == RenderInit /\ [][RenderNext]_vars

\* ------------------------------------------- running a chunk graph, stepwise

\* Control is at a chunk of the graph; limit bounds the length of the run.
Running(limit) ==
    /\ pc = "exec"
    /\ execAt \in DOMAIN finalChunks
    /\ Len(trace) < limit

ExecFrame == UNCHANGED <<pc, body, optimize, builderVars, renderVars, boolVars, emitVars>>

\* A conditional leaf: its comparison comes out true or false.
ExecLeaf(limit) ==
    /\ Running(limit)
    /\ finalChunks[execAt].branchBehavior.kind = "leafExpressionBranch"
    /\ \E outcome \in BOOLEAN :
          /\ trace' = Append(trace, [id |-> execAt, out |-> IF outcome THEN "T" ELSE "F"])
          /\ execAt' = GraphSucc(finalChunks[execAt], outcome)
    /\ ExecFrame

\* Any other chunk: its statements run and control leaves it.
ExecChunk(limit) ==
    /\ Running(limit)
    /\ finalChunks[execAt].branchBehavior.kind # "leafExpressionBranch"
    /\ trace' = Append(trace, [id |-> execAt, out |-> "-"])
    /\ execAt' = GraphSucc(finalChunks[execAt], TRUE)
    /\ ExecFrame

\* The chunk graph of a compiled script body, run from chunk 0.
ExecInit ==
    /\ pc = "exec"
    /\ body \in RenderedBodies
    /\ optimize = FALSE
    /\ BuilderIs(RunBuilder(BuilderInit(body)))
    /\ RenderIdle
    /\ BoolIdle
    /\ execAt = 0
    /\ trace = <<>>
    /\ EmitIdle

ExecLeafStep == ExecLeaf(MaxTrace)

ExecChunkStep == ExecChunk(MaxTrace)

ExecNext ==
    \/ ExecLeafStep
    \/ ExecChunkStep

ExecSpec == ExecInit /\ [][ExecNext]_vars

\* --------------------------------- splitBooleanExpressionChunks on its own

\* The expressions linearized: up to MaxOps binary operators.
Expressions == UNION { ExprsOfSize(n, <<>>) : n \in 0 .. MaxOps }

\* The ids the caller has given out before the call: chunks 1 and 2 exist,
\* and the success and failure destinations are among them or -1.
BoolInit ==
    /\ pc = "split"
    /\ body = <<>>
    /\ optimize = FALSE
    /\ chunkCounter = 2
    /\ finalChunks = EmptyMap
    /\ remainingChunks = <<>>
    /\ loopStatementReturnChunks = EmptyMap
    /\ loopStatementOriginChunks = EmptyMap
    /\ RenderIdle
    /\ expression \in Expressions
    /\ successChunkID \in {1, 2}
    /\ failureChunkID \in {-1, 1, 2}
    /\ ExecIdle
    /\ EmitIdle

\* The call of splitBooleanExpressionChunks with firstID -1, as at lines 237-253,
\* 327 and 353; the worklist loop then finalizes each new chunk as it is
\* (lines 112-116), and control enters at the entry id returned.
Linearize ==
    /\ pc = "split"
    /\ LET r == splitBooleanExpressionChunks(expression, chunkCounter, successChunkID,
                                             failureChunkID, remainingChunks, -1)
           b == RunBuilder([BuilderInit(<<>>) EXCEPT !.remainingChunks = r.remainingChunks,
                                                     !.chunkCounter = r.chunkCounter])
       IN /\ chunkCounter' = r.chunkCounter
          /\ finalChunks' = b.finalChunks
          /\ execAt' = r.firstID
    /\ pc' = "exec"
    /\ UNCHANGED <<body, optimize, remainingChunks, loopStatementReturnChunks,
                   loopStatementOriginChunks, renderVars, boolVars, trace, emitVars>>

BoolLeafStep == ExecLeaf(2 * MaxOps + 2)

BoolChunkStep == ExecChunk(2 * MaxOps + 2)

BoolNext ==
    \/ Linearize
    \/ BoolLeafStep
    \/ BoolChunkStep

BoolSpec == BoolInit /\ [][BoolNext]_vars

\* ------------------------------------------------------------ Emit, stepwise

\* Emit entered (line 29) with a program and either setting of e.optimize.
EmitInit ==
    /\ pc = "statements"
    /\ body = <<>>
    /\ optimize \in BOOLEAN
    /\ BuilderIs(BuilderInit(<<>>))
    /\ RenderIdle
    /\ BoolIdle
    /\ ExecIdle
    /\ program \in Programs
    /\ stmtIndex = 0
    /\ emitCount = 0
    /\ sb = <<>>
    /\ result = [kind |-> "none", value |-> <<>>]

\* The statement the range loop of line 32 takes next.
InLoop ==
    /\ pc = "statements"
    /\ stmtIndex < Len(program.TopLevelStatements)

stmt == program.TopLevelStatements[stmtIndex + 1]

EmitFrame == UNCHANGED <<body, optimize, builderVars, renderVars, boolVars, execVars, program>>

\* Lines 39-41 with r what emitScriptStatement came to; its panic is not
\* recovered.
WriteScript(r) ==
    IF r.panicked
    THEN /\ pc' = "panic"
         /\ UNCHANGED <<stmtIndex, emitCount, sb, result>>
    ELSE /\ sb' = sb \o Separator(emitCount) \o r.text
         /\ emitCount' = emitCount + 1
         /\ stmtIndex' = stmtIndex + 1
         /\ UNCHANGED <<pc, result>>

\* EmitScript with a chunk counter that outlives the call: the builder of a
\* script statement starts counting where the statements emitted so far
\* left off, not at 0.
EmitScriptCarried ==
    /\ InLoop
    /\ stmt.kind = "script"
    /\ WriteScript(ScriptText(RunBuilder([BuilderInit(stmt.body) EXCEPT !.chunkCounter = emitCount]), stmt.name, optimize))
    /\ EmitFrame

\* Lines 33-42.
EmitScript ==
    /\ InLoop
    /\ stmt.kind = "script"
    /\ WriteScript(emitScriptStatement(stmt, optimize))
    /\ EmitFrame

\* Lines 33-35 and 44-49.
EmitRaw ==
    /\ InLoop
    /\ stmt.kind = "raw"
    /\ sb' = sb \o Separator(emitCount) \o emitRawStatement(stmt)
    /\ emitCount' = emitCount + 1
    /\ stmtIndex' = stmtIndex + 1
    /\ UNCHANGED <<pc, result>>
    /\ EmitFrame

\* Lines 33-35 and 51-52: a message is printed and "" is returned.
EmitUnrecognized ==
    /\ InLoop
    /\ stmt.kind \notin {"script", "raw"}
    /\ sb' = sb \o Separator(emitCount)
    /\ result' = [kind |-> "string", value |-> <<>>]
    /\ pc' = "returned"
    /\ UNCHANGED <<stmtIndex, emitCount>>
    /\ EmitFrame

\* The texts written after the statements: lines 55-62.
RECURSIVE EmitTexts(_, _, _)
EmitTexts(texts, j, i) ==
    IF j >= Len(texts) THEN <<>>
    ELSE Separator(i + j) \o emitText(texts[j + 1]) \o EmitTexts(texts, j + 1, i)

\* Lines 55-63.
EmitReturn ==
    /\ pc = "statements"
    /\ stmtIndex = Len(program.TopLevelStatements)
    /\ sb' = sb \o EmitTexts(program.Texts, 0, emitCount)
    /\ result' = [kind |-> "string", value |-> sb']
    /\ pc' = "returned"
    /\ UNCHANGED <<stmtIndex, emitCount>>
    /\ EmitFrame

EmitNext ==
    \/ EmitScript
    \/ EmitRaw
    \/ EmitUnrecognized
    \/ EmitReturn

EmitSpec == EmitInit /\ [][EmitNext]_vars

\* ---------------------------------------------------- reading the AST

\* Every statement of a statement list, at any depth.
RECURSIVE AllStatements(_)
AllStatements(statements) ==
    UNION { LET st == statements[k]
            IN {st} \cup
               (IF st.kind \in {"while", "dowhile"} THEN AllStatements(st.body)
                ELSE IF st.kind = "if"
                THEN AllStatements(st.body) \cup AllStatements(st.els)
                     \cup UNION { AllStatements(st.elifs[j].body) : j \in 1 .. Len(st.elifs) }
                ELSE {})
          : k \in 1 .. Len(statements) }

IsLoop(st) == st.kind \in {"while", "dowhile"}

IsProperPrefix(p, q) == Len(p) < Len(q) /\ SubSeq(q, 1, Len(p)) = p

\* The loops a statement lies in, by its place in the tree.
EnclosingLoops(st) ==
    { l \in AllStatements(body) : IsLoop(l) /\ IsProperPrefix(l.uid, st.uid) }

\* The innermost of them.
InnermostLoop(st) ==
    CHOOSE l \in EnclosingLoops(st) : \A m \in EnclosingLoops(st) : Len(m.uid) <= Len(l.uid)

\* The leaf a left-to-right evaluation of an expression evaluates first.
RECURSIVE LeftmostLeaf(_)
LeftmostLeaf(e) == IF e.op = "leaf" THEN e ELSE LeftmostLeaf(e.left)

RECURSIVE LeavesOf(_)
LeavesOf(e) == IF e.op = "leaf" THEN {e.uid} ELSE LeavesOf(e.left) \cup LeavesOf(e.right)

\* ------------------------------------------------ reading the chunk graph

\* The chunks of a builder state, pending or final, by id.
ChunksOf(b) ==
    LET pending == { b.remainingChunks[k] : k \in 1 .. Len(b.remainingChunks) }
        final == { b.finalChunks[id] : id \in DOMAIN b.finalChunks }
    IN [id \in { c.id : c \in pending \cup final } |->
           CHOOSE c \in pending \cup final : c.id = id]

\* Chunk id evaluates a leaf of the expression e.
IsLeafChunkOf(chunks, id, e) ==
    /\ id \in DOMAIN chunks
    /\ chunks[id].branchBehavior.kind = "leafExpressionBranch"
    /\ chunks[id].branchBehavior.truthyDest.operatorExpression \in LeavesOf(e)

\* Chunk id is part of the linearized expression e: one of its leaves, or a
\* link that jumps to the entry of a right operand.
IsCondChunkOf(chunks, id, e) ==
    \/ IsLeafChunkOf(chunks, id, e)
    \/ /\ id \in DOMAIN chunks
       /\ chunks[id].branchBehavior.kind = "jump"
       /\ IsLeafChunkOf(chunks, chunks[id].branchBehavior.destChunkID, e)
       /\ chunks[chunks[id].branchBehavior.destChunkID]
              .branchBehavior.truthyDest.operatorExpression # LeftmostLeaf(e).uid

\* The entry of the linearized expression e: the chunk of its leftmost leaf.
CondEntry(chunks, e) ==
    CHOOSE id \in DOMAIN chunks :
        /\ chunks[id].branchBehavior.kind = "leafExpressionBranch"
        /\ chunks[id].branchBehavior.truthyDest.operatorExpression = LeftmostLeaf(e).uid

HasCondEntry(chunks, e) ==
    \E id \in DOMAIN chunks :
        /\ chunks[id].branchBehavior.kind = "leafExpressionBranch"
        /\ chunks[id].branchBehavior.truthyDest.operatorExpression = LeftmostLeaf(e).uid

\* Where control leaves the linearized expression e when every leaf it
\* evaluates, from chunk id on, comes out as outcome.
RECURSIVE CondExit(_, _, _, _)
CondExit(chunks, e, id, outcome) ==
    IF IsCondChunkOf(chunks, id, e)
    THEN CondExit(chunks, e, GraphSucc(chunks[id], outcome), outcome)
    ELSE id

\* Chunk id is the header of loop l: its branch jumps to the entry of the
\* loop's linearized condition.
IsHeaderOf(chunks, id, l) ==
    /\ id \in DOMAIN chunks
    /\ chunks[id].branchBehavior.kind = "jump"
    /\ HasCondEntry(chunks, l.cond)
    /\ chunks[id].branchBehavior.destChunkID = CondEntry(chunks, l.cond)

\* ------------------------------------------------------------------ claims

\* The worklist loop pops a chunk that stops at a continue whose loop has a
\* recorded header binding.
ContinueResolves ==
    /\ Popping("continue")
    /\ CurStmt(Builder).loop \in DOMAIN loopStatementOriginChunks
    /\ EnclosingLoops(CurStmt(Builder)) # {}

\* The destination the chunk ending at that continue is finalized with.
ContinueDest ==
    ResolveContinue(Builder).finalChunks[CurChunk(Builder).id].branchBehavior.destChunkID

\* C1: the chunk that ends at a continue, in a while or a do-while loop,
\* transfers control to the header chunk of the innermost enclosing loop, the
\* chunk whose branch jumps to the entry of that loop's linearized condition.
C1_ContinueTargetsHeader ==
    ContinueResolves =>
        IsHeaderOf(ChunksOf(Builder), ContinueDest, InnermostLoop(CurStmt(Builder)))

\* C1 for while loops alone, where the code does what the claim says.
C1_ContinueInWhileTargetsHeader ==
    (ContinueResolves /\ InnermostLoop(CurStmt(Builder)).kind = "while") =>
        IsHeaderOf(ChunksOf(Builder), ContinueDest, InnermostLoop(CurStmt(Builder)))

\* The leaves a run of the chunk graph has evaluated, in order, each with the
\* value its comparison came out with.
LeafRun ==
    LET IsLeafEntry(x) == x.out # "-"
        entries == SelectSeq(trace, IsLeafEntry)
    IN [k \in 1 .. Len(entries) |->
           [leaf |-> finalChunks[entries[k].id].branchBehavior.truthyDest.operatorExpression,
            value |-> entries[k].out = "T"]]

\* Left-to-right short-circuit evaluation of e, taking the value of each leaf
\* it evaluates from the front of run: ok says that run supplied exactly the
\* leaves asked for so far, rest is what of run is left over.
RECURSIVE ShortCircuit(_, _)
ShortCircuit(e, run) ==
    IF e.op = "leaf"
    THEN IF run # <<>> /\ Head(run).leaf = e.uid
         THEN [ok |-> TRUE, value |-> Head(run).value, rest |-> Tail(run)]
         ELSE [ok |-> FALSE, value |-> FALSE, rest |-> run]
    ELSE LET l == ShortCircuit(e.left, run)
         IN IF ~l.ok THEN l
            ELSE IF e.op = "and" /\ ~l.value THEN l
            ELSE IF e.op = "or" /\ l.value THEN l
            ELSE ShortCircuit(e.right, l.rest)

\* The run of the linearized expression has left its chunks.
LinearizedRunEnded == pc = "exec" /\ execAt \notin DOMAIN finalChunks

\* C2: a run of the chunks splitBooleanExpressionChunks creates, entered at
\* the id it returns, ends at the success id when the expression is true and at
\* the failure id when it is false, having evaluated exactly the leaves that
\* left-to-right short-circuit evaluation evaluates, in that order; and it
\* ends within one pass over the chunks created.
C2_ShortCircuitLinearization ==
    /\ (pc = "exec" /\ execAt \in DOMAIN finalChunks) => Len(trace) < 2 * MaxOps + 2
    /\ LinearizedRunEnded =>
          LET r == ShortCircuit(expression, LeafRun)
          IN /\ r.ok
             /\ r.rest = <<>>
             /\ execAt = IF r.value THEN successChunkID ELSE failureChunkID

\* A run of A && B, B itself compound, in which A came out false: no leaf of B
\* was entered and control is at the failure id.
C2_Witness ==
    /\ LinearizedRunEnded
    /\ expression.op = "and"
    /\ expression.right.op = "or"
    /\ Len(LeafRun) = 1
    /\ ~LeafRun[1].value
    /\ successChunkID # failureChunkID
    /\ execAt = failureChunkID

\* The live statements of a statement list, at any depth: those the worklist
\* loop gets to.  What follows an end, a return, a break or a continue in its
\* own statement list is cut off (lines 100-105, 158-163, 170-175).
RECURSIVE LiveStatements(_)
LiveStatements(statements) ==
    LET stops == { k \in 1 .. Len(statements) :
                      \/ IsTerminalCommand(statements[k])
                      \/ statements[k].kind \in {"break", "continue"} }
        last == IF stops = {} THEN Len(statements) ELSE Min(stops)
    IN UNION { LET st == statements[k]
               IN {st} \cup
                  (IF st.kind \in {"while", "dowhile"} THEN LiveStatements(st.body)
                   ELSE IF st.kind = "if"
                   THEN LiveStatements(st.body) \cup LiveStatements(st.els)
                        \cup UNION { LiveStatements(st.elifs[j].body) :
                                        j \in 1 .. Len(st.elifs) }
                   ELSE {})
             : k \in 1 .. last }

\* The places a statement holds in the statement lists of the finalized chunks.
Occurrences(st) ==
    { <<id, k>> \in (DOMAIN finalChunks) \X (1 .. MaxSize) :
         /\ k <= Len(finalChunks[id].statements)
         /\ finalChunks[id].statements[k] = st }

\* A command other than end and return.
IsPlainCommand(st) == st.kind = "cmd" /\ ~IsTerminalCommand(st)

\* The worklist is empty and the builder goes on to render.
WorklistEmpty == pc = "render" /\ remainingChunks = <<>>

\* C3 as stated, read for the statements a chunk's list can hold, the
\* commands: once the worklist is empty every command of the body, at any
\* depth, is in the statement list of exactly one finalized chunk, once.
C3_EveryStatementOnce ==
    WorklistEmpty =>
        \A st \in AllStatements(body) :
            st.kind = "cmd" => Cardinality(Occurrences(st)) = 1

\* C3: once the worklist is empty, every command of the body other than end
\* and return that the worklist loop gets to is in the statement list of
\* exactly one finalized chunk, once; no other statement of the body is in
\* any; and the chunks hold nothing else.
C3_LiveCommandsOnce ==
    WorklistEmpty =>
        /\ \A st \in AllStatements(body) :
              Cardinality(Occurrences(st)) =
                 IF IsPlainCommand(st) /\ st \in LiveStatements(body) THEN 1 ELSE 0
        /\ \A id \in DOMAIN finalChunks :
              \A k \in 1 .. Len(finalChunks[id].statements) :
                 finalChunks[id].statements[k] \in AllStatements(body)

\* A body compiled to the end with a command that is kept and a command
\* that is cut off.
C3_Witness ==
    /\ WorklistEmpty
    /\ \E st \in AllStatements(body) :
          /\ IsPlainCommand(st)
          /\ Cardinality(Occurrences(st)) = 1
    /\ \E st \in AllStatements(body) :
          /\ IsPlainCommand(st)
          /\ st \notin LiveStatements(body)

\* The order the optimizer has built so far lists distinct chunk ids, chunk 0
\* first, and unvisited holds the rest.
OrderSoFar ==
    /\ Len(chunkIDs) >= 1
    /\ chunkIDs[1] = 0
    /\ \A j, k \in 1 .. Len(chunkIDs) : chunkIDs[j] = chunkIDs[k] => j = k
    /\ { chunkIDs[k] : k \in 1 .. Len(chunkIDs) } \cup unvisited = DOMAIN finalChunks
    /\ { chunkIDs[k] : k \in 1 .. Len(chunkIDs) } \cap unvisited = {}

\* C4: on a chunk mapping the builder has produced, every iteration of the
\* loop of optimizeChunkOrder appends one id, so that the loop ends after
\* len(chunks) - 1 iterations, and the sequence returned starts with id 0 and
\* holds every chunk id of the mapping exactly once.
C4_OptimizedOrderIsPermutation ==
    /\ pc = "optimize" => OrderSoFar
    /\ Optimizing =>
          Len(OptimizerStep(finalChunks, Optimizer).chunkIDs) = Len(chunkIDs) + 1
    /\ (optimize /\ pc \in {"bodies", "labels", "done"}) =>
          /\ OrderSoFar
          /\ unvisited = {}
          /\ Len(chunkIDs) = Cardinality(DOMAIN finalChunks)
          /\ chunkIDs = optimizeChunkOrder(finalChunks)

\* optimizeChunkOrder has returned an order that is not the ascending one,
\* and the fallback scan had to pick ids along the way.
C4_Witness ==
    /\ optimize
    /\ pc = "bodies"
    /\ Len(chunkIDs) >= 4
    /\ chunkIDs # SortedIDs(DOMAIN finalChunks)
    /\ scanIndex > 1

\* The worklist loop pops a chunk that stops at a break whose loop has a
\* recorded exit binding.
BreakResolves ==
    /\ Popping("break")
    /\ CurStmt(Builder).loop \in DOMAIN loopStatementReturnChunks
    /\ EnclosingLoops(CurStmt(Builder)) # {}

\* The destination the chunk ending at that break is finalized with.
BreakDest ==
    ResolveBreak(Builder).finalChunks[CurChunk(Builder).id].branchBehavior.destChunkID

\* C5: the chunk that ends at a break jumps to the exit id recorded for the
\* innermost enclosing loop, which is the id control goes to when that loop's
\* condition fails, and to the exit of no loop further out.
C5_BreakTargetsInnermostExit ==
    BreakResolves =>
        LET l == InnermostLoop(CurStmt(Builder))
            chunks == ChunksOf(Builder)
        IN /\ BreakDest = loopStatementReturnChunks[l.uid]
           /\ HasCondEntry(chunks, l.cond)
           /\ BreakDest = CondExit(chunks, l.cond, CondEntry(chunks, l.cond), FALSE)
           /\ \A m \in EnclosingLoops(CurStmt(Builder)) \ {l} :
                 /\ m.uid \in DOMAIN loopStatementReturnChunks
                 /\ BreakDest # loopStatementReturnChunks[m.uid]

\* A chunk ending at a break of a loop nested in another loop has been
\* finalized: it goes to the exit recorded for the inner loop.
C5_Witness ==
    \E id \in DOMAIN finalChunks :
        \E l, m \in AllStatements(body) :
            /\ IsLoop(l) /\ IsLoop(m)
            /\ IsProperPrefix(m.uid, l.uid)
            /\ l.uid \in DOMAIN loopStatementReturnChunks
            /\ m.uid \in DOMAIN loopStatementReturnChunks
            /\ finalChunks[id].branchBehavior.kind = "breakContext"
            /\ finalChunks[id].branchBehavior.destChunkID = loopStatementReturnChunks[l.uid]

\* The chunks control has been at in a run, the one it is at now last.
Path == [k \in 1 .. Len(trace) + 1 |-> IF k <= Len(trace) THEN trace[k].id ELSE execAt]

\* The loops of the body the builder has built chunks for.
BuiltLoops ==
    { l \in AllStatements(body) : IsLoop(l) /\ l.uid \in DOMAIN loopStatementReturnChunks }

\* The chunk that starts the body of loop l: where its condition goes when it
\* holds.
BodyEntry(l) == CondExit(finalChunks, l.cond, CondEntry(finalChunks, l.cond), TRUE)

\* Control enters loop l at position e of the path: the chunk before is the
\* one that was cut at the loop statement (lines 132-138, 144-150).
EntersLoop(l, e) ==
    /\ e > 1
    /\ Path[e - 1] \in DOMAIN finalChunks
    /\ finalChunks[Path[e - 1]].branchBehavior.kind = "jump"
    /\ finalChunks[Path[e - 1]].branchBehavior.destChunkID = Path[e]
    /\ Path[e] = loopStatementOriginChunks[l.uid]

\* The positions, from e on and before control has left the loop, at which an
\* evaluation of the condition of loop l is complete: a leaf of it has been
\* evaluated and control has gone out of its chunks.
Evaluations(l, e) ==
    { j \in e .. (Len(Path) - 1) :
         /\ IsLeafChunkOf(finalChunks, Path[j], l.cond)
         /\ ~IsCondChunkOf(finalChunks, Path[j + 1], l.cond)
         /\ \A i \in e .. j : Path[i] # loopStatementReturnChunks[l.uid] }

\* How often the body of loop l has been started from position e to j.
BodyRuns(l, e, j) == Cardinality({ i \in e .. j : Path[i] = BodyEntry(l) })

\* Loop l, entered at position e, has had its condition evaluated for the
\* first time at position j, and it was false.
FalseOnFirstEvaluation(l, e, j) ==
    /\ EntersLoop(l, e)
    /\ Evaluations(l, e) # {}
    /\ j = Min(Evaluations(l, e))
    /\ trace[j].out = "F"

\* C6: in a run of the chunk graph, when the condition of a loop is false the
\* first time it is evaluated after the loop is entered, control goes to the
\* loop's exit, and until then the body of a while loop has not been started
\* and the body of a do-while loop has been started exactly once.
C6_FalseOnFirstEvaluation ==
    pc = "exec" =>
        \A l \in BuiltLoops : \A e \in 1 .. Len(Path) : \A j \in e .. (Len(Path) - 1) :
            FalseOnFirstEvaluation(l, e, j) =>
                /\ Path[j + 1] = loopStatementReturnChunks[l.uid]
                /\ BodyRuns(l, e, j) = IF l.kind = "while" THEN 0 ELSE 1

\* C6 for the loops that no continue statement is bound to.
C6_FalseOnFirstEvaluationNoContinue ==
    pc = "exec" =>
        \A l \in BuiltLoops : \A e \in 1 .. Len(Path) : \A j \in e .. (Len(Path) - 1) :
            (/\ FalseOnFirstEvaluation(l, e, j)
             /\ \A st \in AllStatements(body) : st.kind = "continue" => st.loop # l.uid) =>
                /\ Path[j + 1] = loopStatementReturnChunks[l.uid]
                /\ BodyRuns(l, e, j) = IF l.kind = "while" THEN 0 ELSE 1

\* The chunk popped stops at a break or a continue whose loop has no binding.
UnresolvedLoopBinding ==
    \/ Popping("break") /\ CurStmt(Builder).loop \notin DOMAIN loopStatementReturnChunks
    \/ Popping("continue") /\ CurStmt(Builder).loop \notin DOMAIN loopStatementOriginChunks

\* C7: when the worklist loop reaches a break or a continue whose loop has no
\* recorded binding, the compilation of the script statement ends in a
\* reported compile error, not in a panic.
C7_UnresolvedLoopIsCompileError ==
    [][UnresolvedLoopBinding => pc' = "compile_error"]_vars

\* Emit has returned from inside the loop over the top-level statements: it
\* met a statement that is neither a script statement nor a raw statement.
ReturnedAtUnrecognized ==
    /\ pc = "returned"
    /\ stmtIndex < Len(program.TopLevelStatements)

\* C8: when Emit has met a top-level statement it does not recognize, what
\* its caller receives is an error, not a string.
C8_UnrecognizedIsError ==
    ReturnedAtUnrecognized => result.kind = "error"

\* The ids the jumps and conditional jumps of the rendered text go to.
EmittedTargets ==
    { text[k].body[n].dest :
        <<k, n>> \in { <<k, n>> \in (1 .. Len(text)) \X (1 .. MaxSize + 3) :
                         /\ n <= Len(text[k].body)
                         /\ text[k].body[n].op \in {"goto", "goto_if"} } }

\* C9: in the rendered text, for either order, chunk 0 is labelled, another
\* chunk is labelled exactly when a jump or conditional jump of the text goes
\* to it, and every jump of the text goes to a chunk whose label is rendered.
C9_LabelIffTargeted ==
    pc = "done" =>
        /\ \A k \in 1 .. Len(text) :
              text[k].label <=> (text[k].id = 0 \/ text[k].id \in EmittedTargets)
        /\ \E k \in 1 .. Len(text) : text[k].id = 0 /\ text[k].label
        /\ \A d \in EmittedTargets :
              \E k \in 1 .. Len(text) : text[k].id = d /\ text[k].label
        /\ \A k \in 1 .. Len(text) : \A n \in 1 .. Len(text[k].body) : n <= MaxSize + 3

\* A rendered script with a chunk that got its label from a jump and a chunk
\* that got none.
C9_Witness ==
    /\ pc = "done"
    /\ \E k \in 1 .. Len(text) : text[k].id # 0 /\ text[k].label
    /\ \E k \in 1 .. Len(text) : ~text[k].label

\* Where control goes from position n of the body of segment k of a rendered
\* text: past commands, by the first jump that is taken, to -1 at the terminal
\* instruction, into the next segment when the body ends without a transfer;
\* -2 when it runs off the end of the text.
RECURSIVE TextSuccFrom(_, _, _, _)
TextSuccFrom(rendered, k, n, outcome) ==
    IF n > Len(rendered[k].body)
    THEN IF k < Len(rendered) THEN rendered[k + 1].id ELSE -2
    ELSE LET line == rendered[k].body[n]
         IN IF line.op = "goto" THEN line.dest
            ELSE IF line.op = "goto_if" /\ outcome THEN line.dest
            ELSE IF line.op = "terminate" THEN -1
            ELSE IF line.op = "blank"
                 THEN (IF k < Len(rendered) THEN rendered[k + 1].id ELSE -2)
            ELSE TextSuccFrom(rendered, k, n + 1, outcome)

SegmentOf(rendered, id) == CHOOSE k \in 1 .. Len(rendered) : rendered[k].id = id

\* The chunk that executes after chunk id in a rendered text.
TextSucc(rendered, id, outcome) == TextSuccFrom(rendered, SegmentOf(rendered, id), 1, outcome)

\* The commands of chunk id in a rendered text.
TextCommands(rendered, id) ==
    LET IsCommand(line) == line.op = "command"
    IN SelectSeq(rendered[SegmentOf(rendered, id)].body, IsCommand)

SegmentIDs(rendered) == { rendered[k].id : k \in 1 .. Len(rendered) }

RECURSIVE Unrecognized(_)
Unrecognized(e) ==
    IF e.op = "leaf" THEN e
    ELSE BinExpr(IF e.op = "or" THEN "xor" ELSE e.op,
                 Unrecognized(e.left), Unrecognized(e.right), e.uid)

\* A statement list with every condition so rewritten, at any depth.
RECURSIVE UnrecognizedIn(_)
UnrecognizedIn(statements) ==
    [k \in 1 .. Len(statements) |->
        LET st == statements[k]
        IN IF st.kind \in {"while", "dowhile"}
           THEN [st EXCEPT !.cond = Unrecognized(st.cond),
                           !.body = UnrecognizedIn(st.body)]
           ELSE IF st.kind = "if"
           THEN [st EXCEPT !.cond = Unrecognized(st.cond),
                           !.body = UnrecognizedIn(st.body),
                           !.els = UnrecognizedIn(st.els),
                           !.elifs = [j \in 1 .. Len(st.elifs) |->
                                         [cond |-> Unrecognized(st.elifs[j].cond),
                                          body |-> UnrecognizedIn(st.elifs[j].body)]]]
           ELSE st]

\* emitScriptStatement entered with a body whose conditions may hold such an
\* operator (those that had no OR are as they were).
IllFormedInit ==
    /\ pc = "build"
    /\ body \in { UnrecognizedIn(b) : b \in Bodies }
    /\ optimize = FALSE
    /\ BuilderIs(BuilderInit(body))
    /\ RenderIdle
    /\ BoolIdle
    /\ ExecIdle
    /\ EmitIdle

IllFormedSpec == IllFormedInit /\ [][Next]_vars

\* An expression of AND and OR over leaves.
RECURSIVE WellFormed(_)
WellFormed(e) ==
    \/ e.op = "leaf"
    \/ e.op \in {"and", "or"} /\ WellFormed(e.left) /\ WellFormed(e.right)

\* The conditions of an if statement or a loop are all well formed.
WellFormedConditions(st) ==
    /\ WellFormed(st.cond)
    /\ st.kind = "if" => \A j \in 1 .. Len(st.elifs) : WellFormed(st.elifs[j].cond)

\* The worklist loop pops a chunk that stops at an if or a loop with a
\* condition the linearizer cannot read.
IllFormedConditionReached ==
    /\ \/ Popping("if")
       \/ Popping("while")
       \/ Popping("dowhile")
    /\ ~WellFormedConditions(CurStmt(Builder))

\* C11: when a condition holding a binary operator that is neither AND nor
\* OR reaches the linearizer, the compilation ends in an internal error: the
\* builder neither goes on with an entry id taken from it nor crashes.
C11_UnknownOperatorIsInternalError ==
    [][IllFormedConditionReached => pc' = "internal_error"]_vars

\* C11, the part about a silent success: renderChunks is never entered for a
\* body in which the builder met such a condition.
C11_NoTextFromIllFormedCondition ==
    pc = "render" =>
        \A st \in LiveStatements(body) :
            st.kind \in {"if", "while", "dowhile"} => WellFormedConditions(st)

\* The script statements Emit has emitted so far, and the blocks of text it
\* wrote for them, in order.
ScriptStatementsDone ==
    LET IsScript(st) == st.kind = "script"
    IN SelectSeq(SubSeq(program.TopLevelStatements, 1, stmtIndex), IsScript)

ScriptBlocks ==
    LET IsScriptBlock(blk) == blk.block = "script"
    IN SelectSeq(sb, IsScriptBlock)

IfConditions(u) ==
    {LeafExpr(u)} \cup
    { BinExpr(o, LeafExpr(u \o <<1>>), LeafExpr(u \o <<2>>), u) : o \in BinaryOperators }

\* Sequences of exactly n elif clauses of statement u, from branch number j
\* on, each with a body of one command of its own.
RECURSIVE IfElifs(_, _, _)
IfElifs(n, u, j) ==
    IF n = 0 THEN {<<>>}
    ELSE { <<[cond |-> c, body |-> <<CommandStatement(u \o <<j, 1>>, "msgbox")>>]>> \o r :
             c \in IfConditions(u \o <<j>>), r \in IfElifs(n - 1, u, j + 1) }

\* Script bodies `cmd; if ... elif ... else ...; cmd`: an if statement with
\* up to MaxElifs elif clauses, with or without an else, between a command
\* before it and a command after it.
IfBodies ==
    LET u == <<2>>
        consequence == <<CommandStatement(u \o <<1, 1>>, "msgbox")>>
        elseBody == <<CommandStatement(u \o <<0, 1>>, "msgbox")>>
        ifs == { IfStatement(u, c, consequence, e, FALSE, <<>>) :
                   c \in IfConditions(u \o <<1>>),
                   e \in UNION { IfElifs(n, u, 2) : n \in 0 .. MaxElifs } }
               \cup
               { IfStatement(u, c, consequence, e, TRUE, elseBody) :
                   c \in IfConditions(u \o <<1>>),
                   e \in UNION { IfElifs(n, u, 2) : n \in 0 .. MaxElifs } }
    IN { <<CommandStatement(<<1>>, "msgbox"), s, CommandStatement(<<3>>, "msgbox")>> : s \in ifs }

\* The chunk graph emitScriptStatement builds for such a body, run from its
\* head chunk.
IfInit ==
    /\ pc = "exec"
    /\ body \in IfBodies
    /\ optimize = FALSE
    /\ BuilderIs(RunBuilder(BuilderInit(body)))
    /\ RenderIdle
    /\ BoolIdle
    /\ execAt = 0
    /\ trace = <<>>
    /\ EmitIdle

\* A run through such an if statement: at most two leaves and a link for
\* each condition, then a body, and the two commands around it.
IfTrace == 3 * (MaxElifs + 1) + 3

IfLeafStep == ExecLeaf(IfTrace)

IfChunkStep == ExecChunk(IfTrace)

IfNext ==
    \/ IfLeafStep
    \/ IfChunkStep

IfSpec == IfInit /\ [][IfNext]_vars

\* What the source says: an expression evaluated left to right with short
\* circuit under the leaf values val; the leaves it evaluates, in order, and
\* its value.
RECURSIVE RefExpr(_, _)
RefExpr(e, val) ==
    IF e.op = "leaf"
    THEN [events |-> <<[leaf |-> e.uid, out |-> val[e.uid]]>>, value |-> val[e.uid]]
    ELSE LET l == RefExpr(e.left, val)
         IN IF (e.op = "and" /\ ~l.value) \/ (e.op = "or" /\ l.value) THEN l
            ELSE [events |-> l.events \o RefExpr(e.right, val).events,
                  value |-> RefExpr(e.right, val).value]

\* The branches of an if statement in source order: the if, then each elif.
IfBranches(st) == <<[cond |-> st.cond, body |-> st.body]>> \o st.elifs

\* What the source says of branches k.. of an if statement: the leaves
\* evaluated, in order, and the body that runs (els when no condition holds).
RECURSIVE RefIf(_, _, _, _)
RefIf(branches, els, val, k) ==
    IF k > Len(branches) THEN [events |-> <<>>, ran |-> els]
    ELSE LET c == RefExpr(branches[k].cond, val)
         IN IF c.value THEN [events |-> c.events, ran |-> branches[k].body]
            ELSE [events |-> c.events \o RefIf(branches, els, val, k + 1).events,
                  ran |-> RefIf(branches, els, val, k + 1).ran]

\* The leaves the run has evaluated, in order, with their outcomes.
LeafEvents ==
    LET IsLeafEvent(ev) == ev.out # "-"
        leaves == SelectSeq(trace, IsLeafEvent)
    IN [k \in 1 .. Len(leaves) |->
          [leaf |-> finalChunks[leaves[k].id].branchBehavior.truthyDest.operatorExpression,
           out |-> leaves[k].out = "T"]]

\* The leaf values of the run: an evaluated leaf has its outcome.
LeafValues(st) ==
    LET leaves == UNION { LeavesOf(IfBranches(st)[k].cond) : k \in 1 .. Len(IfBranches(st)) }
    IN [u \in leaves |-> \E k \in 1 .. Len(LeafEvents) :
                             LeafEvents[k].leaf = u /\ LeafEvents[k].out]

\* The statements the run has executed, in order.
RECURSIVE StatementsRunTo(_)
StatementsRunTo(k) ==
    IF k = 0 THEN <<>> ELSE StatementsRunTo(k - 1) \o finalChunks[trace[k].id].statements

StatementsRun == StatementsRunTo(Len(trace))

IsPrefixOf(p, q) == Len(p) <= Len(q) /\ SubSeq(q, 1, Len(p)) = p

\* C13: running the chunk graph of an if statement with elif clauses and an
\* optional else evaluates the conditions in source order, with short
\* circuit, runs the body of the first branch whose condition is true and no
\* other, runs the else body when none is true, and then runs the statements
\* after the if statement (the continuation); with no elif and no else a
\* false condition goes straight to the continuation.
C13_IfElifElseOrder ==
    LET st == body[2]
        ref == RefIf(IfBranches(st), st.els, LeafValues(st), 1)
        expected == <<body[1]>> \o ref.ran \o <<body[3]>>
    IN /\ IsPrefixOf(LeafEvents, ref.events)
       /\ IsPrefixOf(StatementsRun, expected)
       /\ execAt \notin DOMAIN finalChunks =>
             /\ execAt = -1
             /\ LeafEvents = ref.events
             /\ StatementsRun = expected

\* A run that has ended after the if condition and the first elif condition
\* were false and the second elif condition true, in a statement that has an
\* else: the second elif body ran between the command before the if and the
\* command after it.
C13_Witness ==
    /\ execAt = -1
    /\ Len(body[2].elifs) = 2
    /\ body[2].hasElse
    /\ body[2].elifs[1].cond.op # "leaf"
    /\ StatementsRun = <<body[1]>> \o body[2].elifs[2].body \o <<body[3]>>

\* A run that has ended in an if statement with no elif and no else whose
\* condition was false: nothing ran between the two commands around it.
C13_WitnessNoElse ==
    /\ execAt = -1
    /\ body[2].elifs = <<>>
    /\ ~body[2].hasElse
    /\ StatementsRun = <<body[1], body[3]>>

\* Statement s comes after statement t in the statement list t is in: it is a
\* later statement of that list, or lies inside one.
ComesAfter(t, s) ==
    LET n == Len(t.uid)
    IN /\ Len(s.uid) >= n
       /\ SubSeq(s.uid, 1, n - 1) = SubSeq(t.uid, 1, n - 1)
       /\ s.uid[n] > t.uid[n]

\* The `end` and `return` commands of the body.
TerminalCommands ==
    { t \in AllStatements(body) : t.kind = "cmd" /\ IsTerminalCommand(t) }

\* No finalized chunk holds a terminal command or a statement that comes
\* after one.
NothingAfterTerminalFinalized ==
    \A id \in DOMAIN finalChunks :
       \A k \in 1 .. Len(finalChunks[id].statements) :
          \A t \in TerminalCommands :
             /\ finalChunks[id].statements[k] # t
             /\ ~ComesAfter(t, finalChunks[id].statements[k])

\* The front scan of the popped chunk has met `end` or `return`: the chunk is
\* finalized under its id with the statements before that command, no branch
\* behavior and returnID -1; nothing else is finalized and nothing is created.
TerminalFinalized ==
    LET c == CurChunk(Builder)
    IN /\ finalChunks' = MapPut(finalChunks, c.id,
                                Chunk(c.id, -1, SubSeq(c.statements, 1, CurIndex(Builder)), NoBranch))
       /\ GraphSucc(finalChunks'[c.id], TRUE) = -1
       /\ remainingChunks' = Tail(remainingChunks)
       /\ chunkCounter' = chunkCounter
       /\ pc' = "build"

\* C14: when the front scan of a pending chunk meets `end` or `return`
\* before any non-command statement, the chunk is finalized with exactly the
\* statements before that command, no branch behavior and returnID -1
\* whatever its returnID was; no pending chunk is created from it, and no
\* statement after a terminal command is ever in a finalized chunk.
C14_TerminalCommandEndsChunk ==
    [][(Popping("cmd") => TerminalFinalized) /\ NothingAfterTerminalFinalized']_vars

\* The builder has finished a body with a while loop whose body is `end` or
\* `return` and then one more statement: the chunk of the loop body, which
\* returned to the loop header before, is final with no statements, no
\* branch behavior and returnID -1.
C14_Witness ==
    /\ pc = "render"
    /\ \E l \in AllStatements(body) :
          /\ l.kind = "while"
          /\ Len(l.body) = 2
          /\ l.body[1] \in TerminalCommands
          /\ BodyEntry(l) \in DOMAIN finalChunks
          /\ finalChunks[BodyEntry(l)] = Chunk(BodyEntry(l), -1, <<>>, NoBranch)

\* Both bindings of loop l are recorded.
LoopBound(l) ==
    /\ l.uid \in DOMAIN loopStatementReturnChunks
    /\ l.uid \in DOMAIN loopStatementOriginChunks

\* The break or continue st names a loop that lexically encloses it.
LinksEnclosingLoop(st) == st.loop \in { l.uid : l \in EnclosingLoops(st) }

\* C15: whenever a pending chunk holds a statement that lies in the body of a
\* loop, at any depth, both bindings of that loop are already recorded; so
\* when the popped chunk stops at a break or continue that names a loop
\* enclosing it, the lookup of its binding does not fail.
C15_BindingsBeforeBody ==
    /\ \A k \in 1 .. Len(remainingChunks) :
          \A j \in 1 .. Len(remainingChunks[k].statements) :
             \A l \in EnclosingLoops(remainingChunks[k].statements[j]) : LoopBound(l)
    /\ (Popping("break") /\ LinksEnclosingLoop(CurStmt(Builder)))
          => ~ResolveBreak(Builder).panicked
    /\ (Popping("continue") /\ LinksEnclosingLoop(CurStmt(Builder)))
          => ~ResolveContinue(Builder).panicked

\* The popped chunk stops at a continue inside an if statement inside its
\* loop, and the loop's header binding is there to be looked up.
C15_Witness ==
    /\ Popping("continue")
    /\ LinksEnclosingLoop(CurStmt(Builder))
    /\ Len(CurStmt(Builder).uid) > Len(CurStmt(Builder).loop) + 2
    /\ CurStmt(Builder).loop \in DOMAIN loopStatementOriginChunks

\* The ids of chunkIDs before position k.
PlacedBefore(k) == { chunkIDs[j] : j \in 1 .. (k - 1) }

\* The id the chunk at position k - 1 leads to: the tail chunk id of its
\* branch behavior when it has one, its returnID otherwise.
LeadsTo(k) ==
    LET prev == finalChunks[chunkIDs[k - 1]]
    IN IF prev.branchBehavior.kind = "nil" THEN prev.returnID
       ELSE getTailChunkID(prev.branchBehavior)

\* Position k holds what its predecessor determines.
DeterminedByPredecessor(k) ==
    IF LeadsTo(k) \in DOMAIN finalChunks \ PlacedBefore(k)
    THEN chunkIDs[k] = LeadsTo(k)
    ELSE chunkIDs[k] = Min(DOMAIN finalChunks \ PlacedBefore(k))

IterationsTaken == []<>(pc # "build") \/ []<><<Next>>_vars

LiveSpec == Init /\ [][Next]_vars /\ IterationsTaken

\* Every break and continue of the body names a loop that encloses it.
Resolvable ==
    \A st \in AllStatements(body) :
       st.kind \in {"break", "continue"} => LinksEnclosingLoop(st)

PendingIDs == { remainingChunks[k].id : k \in 1 .. Len(remainingChunks) }

\* A step takes a chunk off the pending list only into the final mapping,
\* under its id, and takes nothing out of the final mapping.
PendingGoesFinal ==
    /\ \A k \in 1 .. Len(remainingChunks) :
          \/ \E j \in 1 .. Len(remainingChunks') : remainingChunks'[j] = remainingChunks[k]
          \/ /\ remainingChunks[k].id \in DOMAIN finalChunks'
             /\ finalChunks'[remainingChunks[k].id].id = remainingChunks[k].id
    /\ DOMAIN finalChunks \subseteq DOMAIN finalChunks'

\* Every id handed out so far is the id of a pending or a finalized chunk.
AllocatedSomewhere == 0 .. chunkCounter = PendingIDs \cup DOMAIN finalChunks

\* C17: for a body with well-formed conditions and resolvable break and
\* continue the worklist loop terminates with the pending list empty; every
\* chunk ever pending is then in the final mapping under its id; and
\* renderChunks is entered only then.
C17_WorklistTerminates ==
    /\ [][Resolvable => PendingGoesFinal]_vars
    /\ [](Resolvable => AllocatedSomewhere)
    /\ []((Resolvable /\ pc = "render") =>
             (remainingChunks = <<>> /\ DOMAIN finalChunks = 0 .. chunkCounter))
    /\ (Resolvable /\ pc = "build") ~> (pc = "render" /\ remainingChunks = <<>>)

\* The worklist loop has ended for a body with a loop and a break in it:
\* the pending list is empty and renderChunks is entered.
C17_Witness ==
    /\ pc = "render"
    /\ Resolvable
    /\ remainingChunks = <<>>
    /\ \E st \in LiveStatements(body) : st.kind = "break"
    /\ Cardinality(DOMAIN finalChunks) >= 5

\* The chunk ids chunk c refers to: its returnID and the destinations of its
\* branch behavior.
ReferencedIDs(c) ==
    {c.returnID} \cup
    (IF c.branchBehavior.kind \in {"jump", "breakContext"}
     THEN {c.branchBehavior.destChunkID}
     ELSE IF c.branchBehavior.kind = "leafExpressionBranch"
     THEN {c.branchBehavior.truthyDest.id, c.branchBehavior.falseyReturnID}
     ELSE {})

\* C18: once the chunk builder has finished, every chunk id a finalized
\* chunk refers to (its returnID, the destination of a jump or of a
\* break/continue, both destinations of a conditional leaf) is -1 or the id
\* of a chunk of the final mapping.
C18_ReferencesResolve ==
    pc = "render" =>
       \A id \in DOMAIN finalChunks :
          ReferencedIDs(finalChunks[id]) \subseteq {-1} \cup DOMAIN finalChunks

\* The builder has finished a body whose finalized chunks hold a jump, a
\* break/continue branch and a conditional leaf that refer to chunks, and a
\* reference that is -1.
C18_Witness ==
    /\ pc = "render"
    /\ \E id \in DOMAIN finalChunks :
          finalChunks[id].branchBehavior.kind = "jump"
          /\ finalChunks[id].branchBehavior.destChunkID \in DOMAIN finalChunks
    /\ \E id \in DOMAIN finalChunks :
          finalChunks[id].branchBehavior.kind = "breakContext"
          /\ finalChunks[id].branchBehavior.destChunkID \in DOMAIN finalChunks
    /\ \E id \in DOMAIN finalChunks :
          finalChunks[id].branchBehavior.kind = "leafExpressionBranch"
          /\ finalChunks[id].branchBehavior.truthyDest.id \in DOMAIN finalChunks
          /\ finalChunks[id].branchBehavior.falseyReturnID \in DOMAIN finalChunks
    /\ \E id \in DOMAIN finalChunks : -1 \in ReferencedIDs(finalChunks[id])

\* No id is held twice: not by two pending chunks, not by a pending and a
\* finalized chunk; a finalized chunk sits under its own id; and every id
\* held was handed out by the counter.
DistinctIDs ==
    /\ \A j, k \in 1 .. Len(remainingChunks) :
          remainingChunks[j].id = remainingChunks[k].id => j = k
    /\ PendingIDs \cap DOMAIN finalChunks = {}
    /\ \A id \in DOMAIN finalChunks : finalChunks[id].id = id
    /\ PendingIDs \cup DOMAIN finalChunks \subseteq 0 .. chunkCounter

\* A step does not lower the counter, gives new pending chunks ids above the
\* counter's old value, and finalizes only under ids the final mapping did
\* not hold; what the final mapping held it still holds.
IDsOnlyAdded ==
    /\ chunkCounter' >= chunkCounter
    /\ \A k \in 1 .. Len(remainingChunks') :
          \/ remainingChunks'[k].id \in PendingIDs
          \/ remainingChunks'[k].id > chunkCounter
    /\ \A id \in DOMAIN finalChunks :
          id \in DOMAIN finalChunks' /\ finalChunks'[id] = finalChunks[id]

\* C19: at every step of a script statement's compilation the ids of the
\* pending chunks and of the final mapping are pairwise distinct; the
\* counter is only incremented, no id is given to two chunks, and no entry
\* of the final mapping is overwritten.
C19_IDsNeverCollide == []DistinctIDs /\ [][IDsOnlyAdded]_vars

\* An if statement with two elif clauses has just been split: several new
\* chunks are pending beside finalized ones.
C19_Witness ==
    /\ pc = "build"
    /\ Len(remainingChunks) >= 5
    /\ DOMAIN finalChunks # {}
    /\ \E st \in AllStatements(body) :
          st.kind = "if" /\ Len(st.elifs) = 2 /\ HasCondEntry(ChunksOf(Builder), st.elifs[2].cond)

\* The fallback scan of lines 448-456, started at i, finds an unvisited id
\* below len(chunks).
ScanFinds ==
    \E j \in scanIndex .. (Cardinality(DOMAIN finalChunks) - 1) : j \in unvisited

\* C20: when the chunk builder has finished, the ids of the final mapping
\* are exactly 0 .. n-1 for its n chunks, every id the counter produced being
\* the id of a finalized chunk; so the optimizer's fallback scan, bounded by
\* i < len(chunks), finds an unvisited id whenever one remains.
C20_FinalIDsContiguous ==
    /\ DOMAIN finalChunks = 0 .. (Cardinality(DOMAIN finalChunks) - 1)
    /\ chunkCounter = Cardinality(DOMAIN finalChunks) - 1
    /\ (Optimizing /\ ~FollowsNext(finalChunks, Optimizer)) => ScanFinds

\* optimizeChunkOrder is at an iteration that cannot follow the natural next
\* id, in a mapping of five chunks or more: the fallback scan has an
\* unvisited id to find, the highest id of the mapping among them.
C20_Witness ==
    /\ Optimizing
    /\ ~FollowsNext(finalChunks, Optimizer)
    /\ Cardinality(DOMAIN finalChunks) >= 5
    /\ ScanFinds
    /\ (Cardinality(DOMAIN finalChunks) - 1) \in unvisited

====
